---- MODULE Spec2Model ----
(***************************************************************************)
(* A model of the genetic distance calculator (src/src/philo.c and         *)
(* src/src/main.c): read_distance_data, the CSV matrix parser, and         *)
(* build_taxonomy, the neighbor-joining tree builder.                      *)
(*                                                                         *)
(* Distances are C doubles.  The model computes with exact rationals,      *)
(* stored as integers in units of 1/Unit; Unit is chosen so that every     *)
(* division the program performs on the modelled inputs is exact, and      *)
(* Div makes an inexact division an evaluation error instead of rounding.  *)
(***************************************************************************)
EXTENDS Integers, Sequences, FiniteSets, TLC

\* ------------------------------------------------------------------------
\* Bounds of the model and constants of the program
\* ------------------------------------------------------------------------

\* Largest number of taxa of the matrices build_taxonomy is run on.
MaxN == 5

\* global.h is not among the sources; the limits are scaled down.
INPUT_MAX == 4
\* sizeof input_buffer: a field and its terminator
BUFFER_SIZE == INPUT_MAX + 1
MAX_TAXA == 6
MAX_NODES == 2 * MAX_TAXA - 2

\* One unit of distance (1.0) as a model integer.
Unit == 96 * 100

NULL == -1

\* Characters are one-character strings; EOF is what fgetc returns at the
\* end of the input and NUL is the byte '\0'.
EOF == "EOF"
NUL == "NUL"
NL == "\n"

MATRIX_OPTION == "MATRIX_OPTION"
NEWICK_OPTION == "NEWICK_OPTION"
DEFAULT_OPTION == "DEFAULT"

Nodes == 0 .. (MAX_NODES - 1)

VARIABLES
    \* globals of the program (global.h)
    global_options, num_taxa, num_all_nodes, num_active_nodes,
    active_node_map, distances, row_sums, nodes, node_names,
    \* the primary output: one entry per line written
    out,
    \* locals of build_taxonomy
    n, edge_index, edge_data,
    \* the input stream: its bytes and the number of bytes consumed so far
    input, pos,
    \* the error stream: one entry per line written
    err,
    \* locals of read_distance_data; buf is input_buffer up to buffer_pointer
    current_character, character_count, input_length, valid_line_count,
    num_fields, num_row_nodes, value, dot_count, buf,
    \* what a write past the end of input_buffer does in this build
    overflow,
    \* control: where the program is, and the value the function returned
    pc, result,
    \* history: the matrix as read, and for each iteration the joined nodes
    \* f and g, their positions in the active map and the new node u
    d_input, joined,
    \* history: how the input was made, and the first content of value
    given

globalVars == <<global_options, num_taxa, num_all_nodes, num_active_nodes,
                active_node_map, distances, row_sums, nodes, node_names>>
buildVars == <<n, edge_index, edge_data, joined>>
readVars == <<input, pos, err, current_character, character_count,
              input_length, valid_line_count, num_fields, num_row_nodes,
              value, dot_count, buf, overflow, given>>
vars == <<globalVars, out, buildVars, readVars, pc, result, d_input>>

\* ------------------------------------------------------------------------
\* Arithmetic and array helpers
\* ------------------------------------------------------------------------

\* a / b on exact rationals: the quotient when it is exact, no value otherwise.
Div(a, b) == IF a % b = 0 THEN a \div b ELSE CHOOSE x \in {} : TRUE

\* *(*(d + i) + j) = v
Put(d, i, j, v) == [d EXCEPT ![i][j] = v]

\* sprintf(..., "%d", k) for k >= 0, as a sequence of characters
Digit(k) == CASE k = 0 -> "0" [] k = 1 -> "1" [] k = 2 -> "2" [] k = 3 -> "3"
              [] k = 4 -> "4" [] k = 5 -> "5" [] k = 6 -> "6" [] k = 7 -> "7"
              [] k = 8 -> "8" [] k = 9 -> "9"

RECURSIVE Decimal(_)
Decimal(k) == IF k < 10 THEN <<Digit(k)>>
              ELSE Append(Decimal(k \div 10), Digit(k % 10))

\* ------------------------------------------------------------------------
\* read_distance_data: the stream, the buffer and the numbers
\* ------------------------------------------------------------------------

Digits == {"0", "1", "2", "3", "4", "5", "6", "7", "8", "9"}

\* c - '0'
DigitValue(c) == CHOOSE k \in 0 .. 9 : Digit(k) = c

\* Line 80 declares value without initialising it and lines 270 and 277 read
\* it for the first numeric field: its first content is whatever the stack
\* holds.  Subnormal stands for a nonzero double too small for a float (the
\* bits of a pointer or of a small integer); an ordinary number is one unit.
Subnormal == 1
Indeterminate == {0, Subnormal, Unit}

\* value * 10.0
TimesTen(v) == IF v = Subnormal THEN Subnormal ELSE 10 * v

\* value + x for a digit's contribution x >= 0: a subnormal is absorbed by
\* any ordinary number added to it.
AddTo(v, x) == IF v = Subnormal THEN (IF x = 0 THEN Subnormal ELSE x) ELSE v + x

\* (float) v, line 386
FloatCast(v) == IF v = Subnormal THEN 0 ELSE v

\* a + b on doubles: a subnormal is absorbed by any ordinary number.
Plus(a, b) ==
    IF a = Subnormal THEN (IF b = 0 THEN Subnormal ELSE b)
    ELSE IF b = Subnormal THEN (IF a = 0 THEN Subnormal ELSE a)
    ELSE a + b

RECURSIVE SumOver(_, _, _)
\* f[lo] + ... + f[hi]
SumOver(f, lo, hi) ==
    IF lo > hi THEN 0 ELSE Plus(f[lo], SumOver(f, lo + 1, hi))

\* The frame of read_distance_data and the globals it writes, as one record.
RdState ==
    [pos |-> pos, err |-> err,
     current_character |-> current_character,
     character_count |-> character_count,
     input_length |-> input_length,
     valid_line_count |-> valid_line_count,
     num_fields |-> num_fields,
     num_row_nodes |-> num_row_nodes,
     value |-> value, dot_count |-> dot_count, buf |-> buf,
     overflow |-> overflow,
     num_taxa |-> num_taxa, num_all_nodes |-> num_all_nodes,
     num_active_nodes |-> num_active_nodes,
     active_node_map |-> active_node_map,
     node_names |-> node_names, distances |-> distances,
     pc |-> pc, result |-> result]

\* What fgetc returns next.
Fgetc(inp, s) == IF s.pos < Len(inp) THEN inp[s.pos + 1] ELSE EOF

\* current_character = fgetc(in)
Getc(inp, s) ==
    [s EXCEPT !.current_character = Fgetc(inp, s),
              !.pos = IF s.pos < Len(inp) THEN s.pos + 1 ELSE s.pos]

\* fprintf(stderr, msg); return -1;
Fail(s, msg) ==
    [s EXCEPT !.err = Append(@, msg), !.result = -1, !.pc = "read_returned"]

\* *buffer_pointer = ... with Len(s.buf) bytes of the field already written:
\* past the end of input_buffer the behaviour is undefined.
BufferWrite(s) ==
    IF Len(s.buf) >= BUFFER_SIZE /\ s.overflow # "unnoticed"
    THEN [s EXCEPT !.pc = "undefined"]
    ELSE s

RECURSIVE Fraction(_, _, _, _)
\* Lines 266-273: the digits after the point, from index k of b; the result
\* is the value and the index of the first byte not consumed.  The program
\* keeps the place value in a float; the model keeps it exact.
Fraction(b, k, v, place) ==
    IF k <= Len(b) /\ b[k] \in Digits
    THEN Fraction(b, k + 1, AddTo(v, DigitValue(b[k]) * Div(Unit, place)),
                  place * 10)
    ELSE <<v, k>>

RECURSIVE Convert(_, _, _)
\* Lines 262-285: the buffer b from index k on, added to the value v.
Convert(b, k, v) ==
    IF k > Len(b) THEN [ok |-> TRUE, value |-> v]
    ELSE IF b[k] = "."
    THEN LET r == Fraction(b, k + 1, v, 10) IN Convert(b, r[2], r[1])
    ELSE IF b[k] \in Digits
    THEN Convert(b, k + 1, AddTo(TimesTen(v), DigitValue(b[k]) * Unit))
    ELSE [ok |-> FALSE, value |-> v]

\* ------------------------------------------------------------------------
\* read_distance_data: the branches of the read loop
\* ------------------------------------------------------------------------

\* A comment skip that counts the comment as a line of the document.
SkipCommentCounted(inp, s) ==
    LET ends == {k \in (s.pos + 1) .. Len(inp) : inp[k] = NL}
    IN IF ends = {}
       THEN [s EXCEPT !.pos = Len(inp), !.pc = "read_hang"]
       ELSE [s EXCEPT !.pos = CHOOSE k \in ends : \A e \in ends : k <= e,
                      !.current_character = NUL,
                      !.character_count = 1,
                      !.valid_line_count = @ + 1]

\* Lines 89-93: bytes are read until a newline is read.  fgetc(in) != '\n' is
\* evaluated first and && reads the old current_character, which is '#' or 1
\* and never EOF: at the end of the input the loop reads EOF for ever.
SkipComment(inp, s) ==
    LET ends == {k \in (s.pos + 1) .. Len(inp) : inp[k] = NL}
    IN IF ends = {}
       THEN [s EXCEPT !.pos = Len(inp), !.pc = "read_hang"]
       ELSE [s EXCEPT !.pos = CHOOSE k \in ends : \A e \in ends : k <= e,
                      !.current_character = NUL,
                      !.character_count = 1]

\* Lines 95-101
Newline(s) ==
    [s EXCEPT !.character_count = 1,
              !.valid_line_count = @ + 1,
              !.num_row_nodes = 0]

\* Lines 121-143 and 150-176: the buffer becomes the name of taxon num_fields.
StoreLabel(s) ==
    [s EXCEPT !.active_node_map[s.num_fields] = s.num_fields,
              !.num_fields = @ + 1,
              !.node_names[s.num_fields] = s.buf,
              !.buf = <<>>]

\* Line 106
FieldTooLong(s, c) == s.input_length > INPUT_MAX /\ c # ","

\* Lines 102-187: one byte of the header line.
HeaderChar(s) ==
    LET c == s.current_character
        s1 == [s EXCEPT !.input_length = @ + 1]
        s2 == IF s1.character_count = 1
              THEN [s1 EXCEPT !.valid_line_count = @ + 1]
              ELSE s1
        s3 == [s2 EXCEPT !.input_length = 0]
        s4 == IF c = "," /\ s2.character_count # 1
              THEN IF s3.num_fields + 1 > MAX_TAXA
                   THEN Fail(s3, "Error: Number of taxa exceeds taxa max!")
                   ELSE StoreLabel(s3)
              ELSE IF c = NL
              THEN IF s3.num_fields + 1 > MAX_TAXA
                   THEN Fail(s3, "Error: Number of taxa exceeds allowed taxa max!")
                   ELSE LET t == StoreLabel(s3)
                        IN [t EXCEPT !.num_taxa = t.num_fields,
                                     !.num_all_nodes = t.num_fields,
                                     !.num_active_nodes = t.num_fields,
                                     !.valid_line_count = @ + 1,
                                     !.character_count = 0]
              ELSE IF s2.character_count # 1
              THEN [s2 EXCEPT !.buf = Append(@, c)]
              ELSE s2
    IN IF FieldTooLong(s1, c)
       THEN Fail(s1, "Error: Input field character length exceeds input max!")
       ELSE IF s4.pc # "read" THEN s4
       ELSE [s4 EXCEPT !.character_count = @ + 1]

\* *(*(node_names + (valid_line_count - 2)) + k)
NameChar(s, k) ==
    LET nm == s.node_names[s.valid_line_count - 2]
    IN IF k < Len(nm) THEN nm[k + 1] ELSE NUL

RECURSIVE LabelLoop(_, _)
\* Lines 192-201: the row label, byte by byte against the header's label.
LabelLoop(inp, s) ==
    IF s.current_character = "," \/ s.current_character = EOF THEN s
    ELSE IF s.current_character # NameChar(s, s.character_count - 1)
    THEN Fail(s, "Error: Incorrect taxa name in matrix!")
    ELSE LabelLoop(inp, [Getc(inp, s) EXCEPT !.character_count = @ + 1])

\* Lines 190-207
RowLabel(inp, s) ==
    IF s.character_count # 1 THEN s
    ELSE LET t == LabelLoop(inp, s)
         IN IF t.pc # "read" THEN t
            ELSE IF NameChar(t, t.character_count - 1) # NUL
            THEN Fail(t, "Error: Incorrect taxa name in matrix!")
            ELSE t

\* Line 240: what may follow a digit 0
AfterZero(next) == next \in {".", ",", NL, EOF}

\* Lines 216-249: one byte of a numeric field, neither ',' nor newline.
NumChar(inp, s) ==
    LET c == s.current_character
        next == Fgetc(inp, s)
        bad == Fail(s, "Error: Matrix input is not a valid floating point value!")
        s1 == IF c = "." THEN [s EXCEPT !.dot_count = @ + 1] ELSE s
    IN IF c \notin Digits /\ c # "." THEN bad
       ELSE IF c = "." /\ s1.dot_count > 1 THEN bad
       ELSE IF c = "." /\ next \notin Digits THEN bad
       ELSE IF c = "0" /\ ~AfterZero(next) THEN bad
       ELSE Getc(inp, [BufferWrite(s1) EXCEPT !.buf = Append(@, c)])

\* Lines 286-290, 327-330 and 370-373
StoreValue(s, v) ==
    [s EXCEPT !.distances[s.valid_line_count - 2][s.num_row_nodes] = v,
              !.value = 0,
              !.dot_count = 0]

\* Lines 251-293: a ',' ends the field in the buffer.
FieldEnd(inp, s) ==
    LET next == Fgetc(inp, s)
        s1 == BufferWrite(s)
        r == Convert(s.buf, 1, s.value)
    IN IF next \in {",", NL, EOF} THEN Fail(s, "Error: Missing input field!")
       ELSE IF s1.pc # "read" THEN s1
       ELSE IF ~r.ok
       THEN Fail(s, "Error: Matrix input is not a valid floating point value!")
       ELSE Getc(inp, [StoreValue(s, r.value) EXCEPT
                          !.num_row_nodes = @ + 1, !.buf = <<>>])

\* Lines 322, 365
WrongFieldCount(s) ==
    (s.num_row_nodes + 1) > s.num_taxa \/ (s.num_row_nodes + 1) < s.num_taxa

\* Lines 294-335 and 337-378: a newline or the end of the input ends the row.
RowEnd(s) ==
    LET s1 == BufferWrite(s)
        r == Convert(s.buf, 1, s.value)
    IN IF s1.pc # "read" THEN s1
       ELSE IF ~r.ok
       THEN Fail(s, "Error: Matrix input is not a valid floating point value!")
       ELSE IF WrongFieldCount(s)
       THEN Fail([s EXCEPT !.value = r.value],
                 "Error: Number of fields in matrix row is incorrect!")
       ELSE [StoreValue(s, r.value) EXCEPT
                !.character_count = 1,
                !.valid_line_count = @ + 1,
                !.num_row_nodes = 0]

RECURSIVE NumLoop(_, _)
\* Lines 212-336: while (current_character != EOF && current_character != '\n')
NumLoop(inp, s) ==
    IF s.pc # "read" THEN s
    ELSE IF s.current_character = EOF \/ s.current_character = NL THEN s
    ELSE LET s1 == IF s.current_character # "," THEN NumChar(inp, s) ELSE s
         IN IF s1.pc # "read" THEN s1
            ELSE IF s1.current_character = "," THEN NumLoop(inp, FieldEnd(inp, s1))
            ELSE IF s1.current_character = NL THEN RowEnd(s1)
            ELSE NumLoop(inp, s1)

\* Lines 188-380: a row of the matrix, entered with its first byte read (or,
\* when character_count is not 1, with a byte that is dropped).
RowStep(inp, s) ==
    LET s1 == RowLabel(inp, s)
    IN IF s1.pc # "read" \/ s1.character_count = 1 THEN s1
       ELSE LET s2 == NumLoop(inp, Getc(inp, [s1 EXCEPT !.buf = <<>>]))
            IN IF s2.pc = "read" /\ s2.current_character = EOF
               THEN RowEnd(s2)
               ELSE s2

\* Line 386
DiagonalBad(s, i) == FloatCast(s.distances[i][i]) # 0

\* Line 391
Asymmetric(s, i, j) == s.distances[i][j] # s.distances[j][i]

\* Lines 382-398: the first entry in row order that fails a check decides.
Validate(s) ==
    LET T == 0 .. (s.num_taxa - 1)
        bad == {p \in T \X T : (p[1] = p[2] /\ DiagonalBad(s, p[1]))
                                  \/ Asymmetric(s, p[1], p[2])}
        first == CHOOSE p \in bad :
                    \A q \in bad : p[1] < q[1] \/ (p[1] = q[1] /\ p[2] <= q[2])
    IN IF bad = {} THEN [s EXCEPT !.result = 0, !.pc = "read_returned"]
       ELSE IF first[1] = first[2] /\ DiagonalBad(s, first[1])
       THEN Fail(s, "Error: Non-zero along matrix diagonal!")
       ELSE Fail(s, "Error: Matrix is not symmetrical!")

\* The branch of the loop body (lines 87, 95, 102, 188) taken for byte c.
Branch(s, c) ==
    IF c = EOF THEN "end"
    ELSE IF c = "#" /\ s.character_count = 1 THEN "comment"
    ELSE IF c = NL /\ s.valid_line_count > 1 THEN "newline"
    ELSE IF s.valid_line_count <= 1 THEN "header"
    ELSE IF s.valid_line_count > 1 /\ s.valid_line_count < (s.num_taxa + 2) THEN "row"
    ELSE "ignored"

\* Lines 84-381: one turn of the read loop, or the checks after it.
Step(inp, s) ==
    LET b == Branch(s, Fgetc(inp, s))
        t == Getc(inp, s)
    IN CASE b = "end" -> Validate(t)
         [] b = "comment" -> SkipComment(inp, t)
         [] b = "newline" -> Newline(t)
         [] b = "header" -> HeaderChar(t)
         [] b = "row" -> RowStep(inp, t)
         [] b = "ignored" -> t

RECURSIVE Run(_, _)
\* read_distance_data from state s until it has returned (or never will).
Run(inp, s) == IF s.pc # "read" THEN s ELSE Run(inp, Step(inp, s))

\* ------------------------------------------------------------------------
\* read_distance_data: the actions
\* ------------------------------------------------------------------------

\* The variables take the values of the record s.
SetRd(s) ==
    /\ pos' = s.pos
    /\ err' = s.err
    /\ current_character' = s.current_character
    /\ character_count' = s.character_count
    /\ input_length' = s.input_length
    /\ valid_line_count' = s.valid_line_count
    /\ num_fields' = s.num_fields
    /\ num_row_nodes' = s.num_row_nodes
    /\ value' = s.value
    /\ dot_count' = s.dot_count
    /\ buf' = s.buf
    /\ num_taxa' = s.num_taxa
    /\ num_all_nodes' = s.num_all_nodes
    /\ num_active_nodes' = s.num_active_nodes
    /\ active_node_map' = s.active_node_map
    /\ node_names' = s.node_names
    /\ distances' = s.distances
    /\ pc' = s.pc
    /\ result' = s.result
    /\ UNCHANGED <<input, overflow, given, global_options, row_sums, nodes, out,
                   buildVars, d_input>>

Reading(b) == pc = "read" /\ Branch(RdState, Fgetc(input, RdState)) = b

ReadComment == Reading("comment") /\ SetRd(SkipComment(input, Getc(input, RdState)))

ReadNewline == Reading("newline") /\ SetRd(Newline(Getc(input, RdState)))

ReadHeader == Reading("header") /\ SetRd(HeaderChar(Getc(input, RdState)))

ReadRow == Reading("row") /\ SetRd(RowStep(input, Getc(input, RdState)))

ReadIgnored == Reading("ignored") /\ SetRd(Getc(input, RdState))

ReadEnd == Reading("end") /\ SetRd(Validate(Getc(input, RdState)))

\* ------------------------------------------------------------------------
\* build_taxonomy: one iteration of the main loop
\* ------------------------------------------------------------------------

\* Lines 556-567: row_sums[active_node_map[i]] for every active position i.
ComputeRowSums(rs, d, amap, na) ==
    [x \in Nodes |->
        IF \E i \in 0 .. (na - 1) : amap[i] = x
        THEN SumOver([j \in 0 .. (na - 1) |-> d[x][amap[j]]], 0, na - 1)
        ELSE rs[x]]

\* Line 580
QValue(d, rs, amap, na, i, j) ==
    (na - 2) * d[amap[i]][amap[j]] - rs[amap[i]] - rs[amap[j]]

\* A comparison that also replaces the smallest Q value on equality.
QLessOrEqual(q, smallest) == q <= smallest

\* Lines 587: the comparison that replaces the smallest Q value so far
QLess(q, smallest) == q < smallest

RECURSIVE QScan(_, _, _, _, _, _, _)
\* Lines 574-595: the nested scan over positions i, j >= i of the active map.
QScan(d, rs, amap, na, i, j, best) ==
    IF i >= na THEN best
    ELSE IF j >= na THEN QScan(d, rs, amap, na, i + 1, i + 1, best)
    ELSE IF i = j THEN QScan(d, rs, amap, na, i, j + 1, best)
    ELSE LET q == QValue(d, rs, amap, na, i, j)
             here == [smallest_distance |-> q,
                      i_index |-> amap[i], j_index |-> amap[j]]
             b1 == IF i = 0 /\ j = 1 THEN here ELSE best
             b2 == IF QLess(q, b1.smallest_distance) THEN here ELSE b1
         IN QScan(d, rs, amap, na, i, j + 1, b2)

\* Lines 570-595.  smallest_distance, i_index and j_index are assigned at the
\* pair (0, 1), the first one scanned, before they are read.
SelectPair(d, rs, amap, na) ==
    QScan(d, rs, amap, na, 0, 0,
          [smallest_distance |-> 0, i_index |-> 0, j_index |-> 0])

\* Line 608
FBranch(d, rs, na, f, g) ==
    Div(d[f][g], 2) + Div(rs[f] - rs[g], 2 * (na - 2))

\* Line 609
GBranch(d, f, g, fb) == d[f][g] - fb

\* A matrix update that also writes the distance between the joined nodes.
MatrixUpdateStepJoined(d, amap, na, nn, f, g, fb, gb, k) ==
    Put(Put(d, f, g, fb + gb + Unit), g, f, fb + gb + Unit)

\* Lines 641-659: the body of the matrix update loop for one k.
MatrixUpdateStep(d, amap, na, nn, f, g, fb, gb, k) ==
    IF na = k
    THEN Put(d, amap[nn], nn, 0)
    ELSE IF k = amap[f]
    THEN Put(Put(d, amap[nn], amap[k], fb), amap[k], amap[nn], fb)
    ELSE IF k = amap[g]
    THEN Put(Put(d, amap[nn], amap[k], gb), amap[k], amap[nn], gb)
    ELSE LET d1 == Put(d, nn, amap[k],
                       Div(d[amap[f]][amap[k]] + d[amap[g]][amap[k]]
                           - d[amap[f]][amap[g]], 2))
         IN Put(d1, amap[k], nn,
                Div(d1[amap[f]][amap[k]] + d1[amap[g]][amap[k]]
                    - d1[amap[f]][amap[g]], 2))

\* A matrix update loop that stores nothing.
MatrixUpdateSkipped(d, amap, na, nn, f, g, fb, gb, k) == d

RECURSIVE MatrixUpdate(_, _, _, _, _, _, _, _, _)
\* Lines 639-660: for (k = 0; k <= num_all_nodes; k++)
MatrixUpdate(d, amap, na, nn, f, g, fb, gb, k) ==
    IF k > nn THEN d
    ELSE MatrixUpdate(MatrixUpdateStep(d, amap, na, nn, f, g, fb, gb, k),
                      amap, na, nn, f, g, fb, gb, k + 1)

\* Lines 664-678: the last position below na that holds node x, 0 if none.
MapIndex(amap, na, x) ==
    LET hits == {i \in 0 .. (na - 1) : amap[i] = x}
    IN IF hits = {} THEN 0 ELSE CHOOSE i \in hits : \A h \in hits : h <= i

\* A deactivation that fills g's position with the first active entry.
DeactivateFirst(amap, na, nn, f, g) ==
    LET pi == MapIndex(amap, na, f)
        pj == MapIndex(amap, na, g)
        a1 == [amap EXCEPT ![pi] = nn]
    IN [a1 EXCEPT ![pj] = a1[0]]

\* Lines 679-683: u takes f's position, the last active entry takes g's.
Deactivate(amap, na, nn, f, g) ==
    LET pi == MapIndex(amap, na, f)
        pj == MapIndex(amap, na, g)
        a1 == [amap EXCEPT ![pi] = nn]
    IN [a1 EXCEPT ![pj] = a1[na - 1]]

\* Lines 619-630: u becomes neighbors[0] of f and g, f and g the children of u.
WireJoin(nd, nn, ntaxa, f, g) ==
    LET n1 == [nd EXCEPT ![f][1] = nn]
        n2 == [n1 EXCEPT ![g][1] = nn]
        n3 == IF nn <= ntaxa
              THEN [n2 EXCEPT ![f][2] = NULL, ![f][3] = NULL,
                              ![g][2] = NULL, ![g][3] = NULL]
              ELSE n2
        n4 == [n3 EXCEPT ![nn][2] = f]
    IN [n4 EXCEPT ![nn][3] = g]

\* Lines 689-693: the neighbors of the last two active nodes a0 and a1.
WireFinal(nd, a0, a1) ==
    LET n1 == [nd EXCEPT ![a0][1] = nd[a0][2]]
        n2 == [n1 EXCEPT ![a0][2] = a1]
        n3 == [n2 EXCEPT ![a1][1] = a0]
        n4 == [n3 EXCEPT ![a1][2] = NULL]
    IN [n4 EXCEPT ![a1][3] = NULL]

\* Line 695
LastBranch(d, amap, eindex, edata) == d[amap[1]][eindex] - edata

\* The two lines with g's line first.
JoinLinesSwapped(amap, nn, f, g, fb, gb) ==
    << <<amap[g], amap[nn], gb>>, <<amap[f], amap[nn], fb>> >>

\* Lines 614-615: the two edge lines of an iteration.  An entry is the
\* argument list of the fprintf: two node numbers and the length.
JoinLines(amap, nn, f, g, fb, gb) ==
    << <<amap[f], amap[nn], fb>>, <<amap[g], amap[nn], gb>> >>

\* A closing line that names the node at position 1 twice.
FinalLineLoop(amap, last) == << <<amap[1], amap[1], last>> >>

\* Line 699
FinalLine(amap, last) == << <<amap[1], amap[0], last>> >>

\* Lines 545, 612, 697
EdgesPrinted == global_options # MATRIX_OPTION

\* ------------------------------------------------------------------------
\* build_taxonomy: the actions
\* ------------------------------------------------------------------------

\* A two-taxa case that writes its edge with the nodes in the other order.
BuildTwoSwapped ==
    /\ pc = "build"
    /\ num_taxa = 2
    /\ out' = IF EdgesPrinted
              THEN Append(out, <<active_node_map[num_all_nodes - 1],
                                 active_node_map[0],
                                 distances[0][num_all_nodes - 1]>>)
              ELSE out
    /\ result' = 0
    /\ pc' = "built"
    /\ UNCHANGED <<globalVars, buildVars, d_input, readVars>>

\* Lines 543-550: two taxa, one edge and no loop.
BuildTwo ==
    /\ pc = "build"
    /\ num_taxa = 2
    /\ out' = IF EdgesPrinted
              THEN Append(out, <<active_node_map[0],
                                 active_node_map[num_all_nodes - 1],
                                 distances[0][num_all_nodes - 1]>>)
              ELSE out
    /\ result' = 0
    /\ pc' = "built"
    /\ UNCHANGED <<globalVars, buildVars, d_input, readVars>>

\* Lines 551-553: the locals are initialised and the loop is entered.
BuildEnter ==
    /\ pc = "build"
    /\ num_taxa # 2
    /\ edge_index' = 0
    /\ edge_data' = 0
    /\ n' = 0
    /\ pc' = "loop"
    /\ UNCHANGED <<globalVars, out, result, d_input, joined, readVars>>

\* Lines 553-703: one iteration of the loop, the final join included.
Iterate ==
    /\ pc = "loop"
    /\ n <= num_taxa - 3
    /\ LET na == num_active_nodes
           nn == num_all_nodes
           rs == ComputeRowSums(row_sums, distances, active_node_map, na)
           sel == SelectPair(distances, rs, active_node_map, na)
           f == sel.i_index
           g == sel.j_index
           amap1 == [active_node_map EXCEPT ![nn] = nn]
           fb == FBranch(distances, rs, na, f, g)
           gb == GBranch(distances, f, g, fb)
           out1 == IF EdgesPrinted
                   THEN out \o JoinLines(amap1, nn, f, g, fb, gb)
                   ELSE out
           nd1 == WireJoin(nodes, nn, num_taxa, f, g)
           d1 == MatrixUpdate(distances, amap1, na, nn, f, g, fb, gb, 0)
           eindex == amap1[MapIndex(amap1, na, g)]
           amap2 == Deactivate(amap1, na, nn, f, g)
           last == LastBranch(d1, amap2, eindex, gb)
       IN /\ row_sums' = rs
          /\ node_names' = [node_names EXCEPT ![nn] = <<"#">> \o Decimal(nn)]
          /\ distances' = d1
          /\ active_node_map' = amap2
          /\ edge_index' = eindex
          /\ edge_data' = gb
          /\ num_all_nodes' = nn + 1
          /\ joined' = Append(joined,
                 [f |-> f, g |-> g, u |-> nn,
                  fpos |-> MapIndex(active_node_map, na, f),
                  gpos |-> MapIndex(active_node_map, na, g)])
          /\ IF na - 1 = 2
             THEN /\ nodes' = WireFinal(nd1, amap2[0], amap2[1])
                  /\ out' = IF EdgesPrinted
                            THEN out1 \o FinalLine(amap2, last)
                            ELSE out1
                  /\ num_active_nodes' = 0
             ELSE /\ nodes' = nd1
                  /\ out' = out1
                  /\ num_active_nodes' = na - 1
    /\ n' = n + 1
    /\ UNCHANGED <<global_options, num_taxa, pc, result, d_input, readVars>>

\* Lines 704-709: the loop is over; the node limit is checked.
BuildReturn ==
    /\ pc = "loop"
    /\ n > num_taxa - 3
    /\ result' = IF num_all_nodes > MAX_NODES THEN -1 ELSE 0
    /\ pc' = "built"
    /\ UNCHANGED <<globalVars, out, buildVars, d_input, readVars>>

\* ------------------------------------------------------------------------
\* The state build_taxonomy starts from: a matrix read successfully
\* ------------------------------------------------------------------------

\* The off-diagonal entries the matrices are filled from, in whole units.
EntryValues(nt) == IF nt <= 4 THEN 0 .. 3 ELSE 1 .. 2

Pairs(nt) == {p \in (0 .. (nt - 1)) \X (0 .. (nt - 1)) : p[1] < p[2]}

\* The symmetric, zero-diagonal matrix with entry m[<<i, j>>] for i < j.
MatrixOf(nt, m) ==
    [i \in Nodes |-> [j \in Nodes |->
        IF i < nt /\ j < nt /\ i # j
        THEN Unit * (IF i < j THEN m[<<i, j>>] ELSE m[<<j, i>>])
        ELSE 0]]

LeafName(i) == <<CASE i = 0 -> "A" [] i = 1 -> "B" [] i = 2 -> "C"
                   [] i = 3 -> "D" [] i = 4 -> "E" [] OTHER -> "F">>

\* Lines 33-45: what a successful read_distance_data leaves behind.
AfterRead(nt, d, opt) ==
    /\ global_options = opt
    /\ num_taxa = nt
    /\ num_all_nodes = nt
    /\ num_active_nodes = nt
    /\ active_node_map = [i \in Nodes |-> IF i < nt THEN i ELSE 0]
    /\ distances = d
    /\ d_input = d
    /\ row_sums = [i \in Nodes |-> 0]
    /\ nodes = [i \in Nodes |-> <<NULL, NULL, NULL>>]
    /\ node_names = [i \in Nodes |-> IF i < nt THEN LeafName(i) ELSE <<>>]
    /\ out = <<>>
    /\ n = 0
    /\ edge_index = 0
    /\ edge_data = 0
    /\ joined = <<>>
    /\ input = <<>>
    /\ pos = 0
    /\ err = <<>>
    /\ current_character = NUL
    /\ character_count = 1
    /\ input_length = 0
    /\ valid_line_count = nt + 2
    /\ num_fields = nt
    /\ num_row_nodes = 0
    /\ value = 0
    /\ dot_count = 0
    /\ buf = <<>>
    /\ overflow = "unnoticed"
    /\ given = [kind |-> "matrix", n |-> nt, i |-> 0, j |-> 0, tok |-> <<>>,
                base |-> <<>>, value |-> 0]
    /\ pc = "build"
    /\ result = NULL

Init ==
    \E nt \in 1 .. MaxN :
        \E m \in [Pairs(nt) -> EntryValues(nt)] :
            \E opt \in {DEFAULT_OPTION, MATRIX_OPTION} :
                AfterRead(nt, MatrixOf(nt, m), opt)

\* ------------------------------------------------------------------------
\* Additive matrices: the leaf-to-leaf path metrics of trees
\* ------------------------------------------------------------------------

\* The lengths the edges of the generating trees are drawn from.
EdgeLengths == 1 .. 2

\* The end of line e (a triple <<x, y, length>>) that is not x.
OtherEnd(e, x) == IF e[1] = x THEN e[2] ELSE e[1]

RECURSIVE PathLengths(_, _, _, _)
\* The lengths of the simple paths from a to b in the graph whose edges are
\* the entries <<x, y, length>> of the sequence E: one length in a tree.
PathLengths(E, a, b, seen) ==
    IF a = b THEN {0}
    ELSE UNION {
           {E[e][3] + l : l \in PathLengths(E, OtherEnd(E[e], a), b, seen \cup {a})} :
           e \in {e \in 1 .. Len(E) :
                    /\ a \in {E[e][1], E[e][2]}
                    /\ OtherEnd(E[e], a) \notin seen \cup {a}} }

RECURSIVE TreeShapes(_)
\* The unrooted binary trees with leaves 0 .. nt-1 (nt >= 3), each a sequence
\* of edges <<x, y>>; the inner nodes are numbered from 100.  A tree with one
\* more leaf k splits an edge by a new inner node and hangs k on it.
TreeShapes(nt) ==
    IF nt = 3 THEN { << <<0, 100>>, <<1, 100>>, <<2, 100>> >> }
    ELSE LET k == nt - 1
             c == 100 + k
         IN { [t EXCEPT ![e] = <<t[e][1], c>>] \o << <<c, t[e][2]>>, <<c, k>> >> :
                t \in TreeShapes(nt - 1), e \in 1 .. (2 * k - 3) }

\* The path metric on the leaves of tree t with edge lengths w, in units.
TreeMetric(nt, t, w) ==
    LET E == [e \in 1 .. Len(t) |-> <<t[e][1], t[e][2], w[e] * Unit>>]
    IN [i \in Nodes |-> [j \in Nodes |->
          IF i < nt /\ j < nt /\ i # j
          THEN CHOOSE l \in PathLengths(E, i, j, {}) : TRUE
          ELSE 0]]

InitAdditive ==
    \E nt \in 3 .. MaxN :
        \E t \in TreeShapes(nt) :
            \E w \in [1 .. (2 * nt - 3) -> EdgeLengths] :
                AfterRead(nt, TreeMetric(nt, t, w), DEFAULT_OPTION)

NextAdditive ==
    \/ BuildEnter
    \/ Iterate
    \/ BuildReturn

\* build_taxonomy in Default mode on the additive matrices of 3 .. MaxN taxa.
SpecAdditive == InitAdditive /\ [][NextAdditive]_vars

\* ------------------------------------------------------------------------
\* The inputs read_distance_data is run on
\* ------------------------------------------------------------------------

\* Largest number of taxa of the documents read.
MaxRows == 3

\* Largest number of comment lines inserted at one place.
MaxCommentLines == 2

\* k bytes c
Repeat(c, k) == [x \in 1 .. k |-> c]

\* The field of row i, column j of the plain document.
BaseToken(i, j) ==
    IF i = j THEN <<"0">>
    ELSE IF i + j = 1 THEN <<"5">>
    ELSE IF i + j = 2 THEN <<"2">>
    ELSE <<"1", ".", "5">>

\* A document: the header's labels and, for each row, its fields.
BaseDoc(nt) ==
    [hdr |-> [i \in 1 .. nt |-> LeafName(i - 1)],
     rows |-> [i \in 1 .. nt |->
                 <<LeafName(i - 1)>> \o [j \in 1 .. nt |-> BaseToken(i - 1, j - 1)]]]

RECURSIVE JoinFields(_)
\* The fields of a line, separated by commas.
JoinFields(fs) ==
    IF Len(fs) = 0 THEN <<>>
    ELSE IF Len(fs) = 1 THEN fs[1]
    ELSE fs[1] \o <<",">> \o JoinFields(Tail(fs))

RECURSIVE Lines(_)
\* The lines (sequences of fields) as bytes, each ended by a newline.
Lines(ls) ==
    IF Len(ls) = 0 THEN <<>>
    ELSE JoinFields(ls[1]) \o <<NL>> \o Lines(Tail(ls))

\* The lines of a document: the header starts with an empty field.
DocLines(doc) == << <<<<>>>> \o doc.hdr >> \o doc.rows

Text(doc) == Lines(DocLines(doc))

\* Numeric fields tried in the place of a plain one.
WellFormed ==
    {<<"5">>, <<"7">>, <<"1", "0">>, <<"1", "0", "0">>, <<"1", "0", "5">>,
     <<"0", ".", "5">>, <<"5", ".", "0", "1">>, <<"0", ".", "0", "5">>,
     <<"1", ".", "0", "5">>, <<"1", ".", "2", "5">>,
     Repeat("1", INPUT_MAX)}
Malformed ==
    {<<>>, <<"0", "5">>, <<".", "5">>, <<"5", ".">>, <<"-", "5">>, <<"+", "5">>,
     <<"a">>, <<"1", "e", "1">>, <<"1", ".", "2", ".">>, <<".">>}
TooLong == {Repeat("1", INPUT_MAX + 1)}
Tokens == WellFormed \cup Malformed \cup TooLong

\* The lengths labels are tried with.
LabelLengths == {INPUT_MAX - 1, INPUT_MAX, INPUT_MAX + 1}

\* Comment lines, without their newline.
CommentLines == {<<"#">>, <<"#", ",", "A">>}

RECURSIVE CommentBlocks(_)
\* The blocks of exactly k comment lines, as bytes.
CommentBlocks(k) ==
    IF k = 0 THEN {<<>>}
    ELSE {c \o <<NL>> \o b : c \in CommentLines, b \in CommentBlocks(k - 1)}

RECURSIVE Commented(_, _, _, _)
\* The lines ls (numbered from k) as bytes, with the block b before each
\* line whose number is in K.
Commented(ls, k, K, b) ==
    IF Len(ls) = 0 THEN <<>>
    ELSE (IF k \in K THEN b ELSE <<>>) \o JoinFields(ls[1]) \o <<NL>>
         \o Commented(Tail(ls), k + 1, K, b)

\* The bytes without the last one.
Chop(t) == SubSeq(t, 1, Len(t) - 1)

Case(kind, nt, i, j, tok, text, base) ==
    [kind |-> kind, n |-> nt, i |-> i, j |-> j, tok |-> tok, text |-> text,
     base |-> base]

Sizes == 1 .. MaxRows
Rows(nt) == 0 .. (nt - 1)

\* The plain documents, with and without the newline of the last row.
PlainCases ==
    {Case("plain", nt, 0, 0, <<>>, Text(BaseDoc(nt)), <<>>) : nt \in Sizes}
    \cup {Case("plain", nt, 1, 0, <<>>, Chop(Text(BaseDoc(nt))), <<>>) : nt \in Sizes}

\* One numeric field replaced.
CellCases ==
    UNION {UNION {UNION {
        {Case("cell", nt, i, j, tok,
              Text([BaseDoc(nt) EXCEPT !.rows[i + 1][j + 2] = tok]), <<>>) :
            tok \in Tokens} :
        j \in Rows(nt)} : i \in Rows(nt)} : nt \in Sizes}

\* The fields of row i column j and of row j column i replaced by the same.
PairCases ==
    UNION {UNION {UNION {
        {Case("pair", nt, i, j, tok,
              Text([BaseDoc(nt) EXCEPT !.rows[i + 1][j + 2] = tok,
                                      !.rows[j + 1][i + 2] = tok]), <<>>) :
            tok \in Tokens} :
        j \in {j \in Rows(nt) : i < j}} : i \in Rows(nt)} : nt \in Sizes}

\* Label i, in the header and in its row, made l bytes long.
LabelCases ==
    UNION {UNION {
        {Case("label", nt, i, l, Repeat(LeafName(i)[1], l),
              Text([BaseDoc(nt) EXCEPT !.hdr[i + 1] = Repeat(LeafName(i)[1], l),
                                      !.rows[i + 1][1] = Repeat(LeafName(i)[1], l)]),
              <<>>) :
            l \in LabelLengths} :
        i \in Rows(nt)} : nt \in Sizes}

\* The label of row i alone replaced: shorter, longer, or another byte.
RowLabelCases ==
    UNION {UNION {
        {Case("rowlabel", nt, i, 0, tok,
              Text([BaseDoc(nt) EXCEPT !.rows[i + 1][1] = tok]), <<>>) :
            tok \in {<<>>, LeafName(i) \o LeafName(i), <<"Z">>}} :
        i \in Rows(nt)} : nt \in Sizes}

\* Row i with its last field dropped, with one field more, or left blank; a
\* document with one line more after its rows.
RowCases ==
    UNION {UNION {
        {Case("dropfield", nt, i, 0, <<>>,
              Text([BaseDoc(nt) EXCEPT !.rows[i + 1] = SubSeq(@, 1, nt)]), <<>>),
         Case("extrafield", nt, i, 0, <<>>,
              Text([BaseDoc(nt) EXCEPT !.rows[i + 1] = Append(@, <<"0">>)]), <<>>),
         Case("blankrow", nt, i, 0, <<>>,
              Text([BaseDoc(nt) EXCEPT !.rows[i + 1] = <<>>]), <<>>)} :
        i \in Rows(nt)} : nt \in Sizes}
    \cup {Case("extrarow", nt, 0, 0, <<>>,
               Text(BaseDoc(nt)) \o <<"Z", ",", "1", NL, NL>>, <<>>) : nt \in Sizes}

\* The first i bytes of a plain document.
TruncateCases ==
    UNION {{Case("truncate", nt, i, 0, <<>>,
                 SubSeq(Text(BaseDoc(nt)), 1, i), <<>>) :
              i \in 0 .. (Len(Text(BaseDoc(nt))) - 1)} : nt \in Sizes}

\* A plain document (j = 1: without its last newline) with a block of
\* comment lines before each of the lines chosen by K.
CommentCases ==
    UNION {UNION {UNION {UNION {
        {Case("comment", nt, k, j, b,
              IF j = 1 THEN Chop(Commented(DocLines(BaseDoc(nt)), 0, K, b))
                       ELSE Commented(DocLines(BaseDoc(nt)), 0, K, b),
              IF j = 1 THEN Chop(Text(BaseDoc(nt))) ELSE Text(BaseDoc(nt))) :
            b \in CommentBlocks(k)} :
        K \in (SUBSET (0 .. nt)) \ {{}}} :
        k \in 1 .. MaxCommentLines} : j \in 0 .. 1} : nt \in Sizes}

\* The first k lines of a plain document followed by a comment line c that
\* the end of the input cuts before its newline.
CutCommentCases ==
    UNION {UNION {
        {Case("cutcomment", nt, k, 0, c,
              Lines(SubSeq(DocLines(BaseDoc(nt)), 1, k)) \o c, <<>>) :
            c \in CommentLines} :
        k \in 0 .. (nt + 1)} : nt \in Sizes}

Cases ==
    PlainCases \cup CellCases \cup PairCases \cup LabelCases \cup RowLabelCases
    \cup RowCases \cup TruncateCases \cup CommentCases \cup CutCommentCases

\* Lines 56-81 and the zeroed statics of global.h: read_distance_data is
\* entered on the bytes inp with g in value.
EnterRead(inp, g, ov) ==
    [pos |-> 0, err |-> <<>>,
     current_character |-> NUL,
     character_count |-> 1,
     input_length |-> 0,
     valid_line_count |-> 0,
     num_fields |-> 0,
     num_row_nodes |-> 0,
     value |-> g, dot_count |-> 0, buf |-> <<>>,
     overflow |-> ov,
     num_taxa |-> 0, num_all_nodes |-> 0, num_active_nodes |-> 0,
     active_node_map |-> [i \in Nodes |-> 0],
     node_names |-> [i \in Nodes |-> <<>>],
     distances |-> [i \in Nodes |-> [j \in Nodes |-> 0]],
     pc |-> "read", result |-> NULL]

\* The program starts on one of the documents above, in one of the modes
\* opts, with any first content of value.
Start(opts) ==
    \E c \in Cases :
        \E g \in Indeterminate :
            \E ov \in {"unnoticed", "fatal"} :
                /\ input = c.text
                /\ overflow = ov
                /\ given = [kind |-> c.kind, n |-> c.n, i |-> c.i, j |-> c.j,
                            tok |-> c.tok, base |-> c.base, value |-> g]
                /\ pos = 0
                /\ err = <<>>
                /\ current_character = NUL
                /\ character_count = 1
                /\ input_length = 0
                /\ valid_line_count = 0
                /\ num_fields = 0
                /\ num_row_nodes = 0
                /\ value = g
                /\ dot_count = 0
                /\ buf = <<>>
                /\ num_taxa = 0
                /\ num_all_nodes = 0
                /\ num_active_nodes = 0
                /\ active_node_map = [i \in Nodes |-> 0]
                /\ node_names = [i \in Nodes |-> <<>>]
                /\ distances = [i \in Nodes |-> [j \in Nodes |-> 0]]
                /\ d_input = [i \in Nodes |-> [j \in Nodes |-> 0]]
                /\ row_sums = [i \in Nodes |-> 0]
                /\ nodes = [i \in Nodes |-> <<NULL, NULL, NULL>>]
                /\ global_options \in opts
                /\ out = <<>>
                /\ n = 0
                /\ edge_index = 0
                /\ edge_data = 0
                /\ joined = <<>>
                /\ pc = "read"
                /\ result = NULL

\* read_distance_data is entered in Default mode.
InitRead == Start({DEFAULT_OPTION})

NextRead ==
    \/ ReadComment
    \/ ReadNewline
    \/ ReadHeader
    \/ ReadRow
    \/ ReadIgnored
    \/ ReadEnd

\* read_distance_data on the documents above.
SpecRead == InitRead /\ [][NextRead]_vars

Next ==
    \/ BuildTwo
    \/ BuildEnter
    \/ Iterate
    \/ BuildReturn

Spec == Init /\ [][Next]_vars

\* ------------------------------------------------------------------------
\* main: the mode dispatch and the renderers
\* ------------------------------------------------------------------------

\* The hundredths printf("%.2lf") may print for |v|: the nearest one; when the
\* exact value lies half way between two, the double the program holds is
\* within rounding error of it and either neighbour can be the nearest.
Hundredths(v) ==
    LET a == IF v < 0 THEN 0 - v ELSE v
        h == Unit \div 100
        q == a \div h
        r == a % h
    IN IF 2 * r < h THEN {q}
       ELSE IF 2 * r > h THEN {q + 1}
       ELSE {q, q + 1}

\* printf("%.2lf", v): the sign, the integer part, the point and two digits.
Fixed2(v) ==
    {(IF v < 0 THEN <<"-">> ELSE <<>>)
        \o Decimal(h \div 100) \o <<".">>
        \o <<Digit((h \div 10) % 10), Digit(h % 10)>> : h \in Hundredths(v)}

RECURSIVE Choices(_)
\* The sequences that take their k-th element from the k-th set of S.
Choices(S) ==
    IF Len(S) = 0 THEN {<<>>}
    ELSE {<<x>> \o r : x \in S[1], r \in Choices(Tail(S))}

\* Lines 459-472: the header line, without its newline.
MatrixHeader(names, nn) ==
    <<",">> \o JoinFields([i \in 1 .. nn |-> names[i - 1]])

\* A row that is printed without the name of its node.
MatrixRowUnnamed(names, d, nn, i) ==
    {JoinFields(fs) :
        fs \in Choices([j \in 1 .. nn |-> Fixed2(d[i][j - 1])])}

\* Lines 476-492: the texts row i can be printed as, without the newline.
MatrixRow(names, d, nn, i) ==
    {names[i] \o <<",">> \o JoinFields(fs) :
        fs \in Choices([j \in 1 .. nn |-> Fixed2(d[i][j - 1])])}

\* Lines 458-495: the sequences of lines emit_distance_matrix can write.
MatrixLines(names, d, nn) ==
    {<<MatrixHeader(names, nn)>> \o rows :
        rows \in Choices([i \in 1 .. nn |-> MatrixRow(names, d, nn, i - 1)])}

\* Lines 435-439: emit_newick_format writes nothing.
NewickLines == <<>>

\* A main that calls build_taxonomy whatever read_distance_data returned.
MainReadUnchecked ==
    /\ pc = "read_returned"
    /\ result = -1
    /\ pc' = "build"
    /\ UNCHANGED <<globalVars, out, buildVars, readVars, result, d_input>>

\* main.c lines 17-20: read_distance_data has returned -1.
MainReadFailed ==
    /\ pc = "read_returned"
    /\ result = -1
    /\ pc' = "exit_failure"
    /\ UNCHANGED <<globalVars, out, buildVars, readVars, result, d_input>>

\* main.c lines 21-24 and 44-47: build_taxonomy is called.
MainBuild ==
    /\ pc = "read_returned"
    /\ result # -1
    /\ global_options # NEWICK_OPTION
    /\ d_input' = distances
    /\ pc' = "build"
    /\ UNCHANGED <<globalVars, out, buildVars, readVars, result>>

\* main.c lines 35-43 and 53: emit_newick_format is called and returns 0.
MainNewick ==
    /\ pc = "read_returned"
    /\ result # -1
    /\ global_options = NEWICK_OPTION
    /\ out' = out \o NewickLines
    /\ result' = 0
    /\ pc' = "exit_success"
    /\ UNCHANGED <<globalVars, buildVars, readVars, d_input>>

\* main.c lines 25-34 and 53: after build_taxonomy in Matrix mode.
MainMatrix ==
    /\ pc = "built"
    /\ global_options = MATRIX_OPTION
    /\ IF result = -1
       THEN /\ out' = out
            /\ pc' = "exit_failure"
       ELSE /\ \E lines \in MatrixLines(node_names, distances, num_all_nodes) :
                  out' = out \o lines
            /\ pc' = "exit_success"
    /\ UNCHANGED <<globalVars, buildVars, readVars, result, d_input>>

\* main.c lines 48-53: after build_taxonomy in Default mode.
MainDefault ==
    /\ pc = "built"
    /\ global_options # MATRIX_OPTION
    /\ pc' = IF result = -1 THEN "exit_failure" ELSE "exit_success"
    /\ UNCHANGED <<globalVars, out, buildVars, readVars, result, d_input>>

InitMain == Start({DEFAULT_OPTION, MATRIX_OPTION, NEWICK_OPTION})

NextMain ==
    \/ ReadComment
    \/ ReadNewline
    \/ ReadHeader
    \/ ReadRow
    \/ ReadIgnored
    \/ ReadEnd
    \/ MainReadFailed
    \/ MainBuild
    \/ MainNewick
    \/ BuildTwo
    \/ BuildEnter
    \/ Iterate
    \/ BuildReturn
    \/ MainMatrix
    \/ MainDefault

\* The whole program: main on the documents above, in every mode.
SpecMain == InitMain /\ [][NextMain]_vars

\* ------------------------------------------------------------------------
\* Properties of build_taxonomy
\* ------------------------------------------------------------------------

BuiltOk == pc = "built" /\ result = 0

Neighbors(x) == {nodes[x][s] : s \in 1 .. 3} \ {NULL}

\* The nodes no iteration has joined under a new node.
Unjoined ==
    (0 .. (num_all_nodes - 1))
        \ ({joined[t].f : t \in 1 .. Len(joined)}
             \cup {joined[t].g : t \in 1 .. Len(joined)})

\* C1: in Default mode with n >= 3 taxa, iteration t (from 0) writes the
\* line of f_t and node n+t and then the line of g_t and node n+t, f_t being
\* the one of the pair that comes first in the active map; when
\* build_taxonomy has returned there are 2n-3 lines, the last one being the
\* edge between the two nodes never joined.
C1_EdgeOrder ==
    (global_options = DEFAULT_OPTION /\ num_taxa >= 3 /\ pc \in {"loop", "built"}) =>
        /\ \A t \in 1 .. Len(joined) :
              /\ joined[t].u = num_taxa + t - 1
              /\ joined[t].fpos < joined[t].gpos
              /\ Len(out) >= 2 * t
              /\ out[2 * t - 1][1] = joined[t].f
              /\ out[2 * t - 1][2] = joined[t].u
              /\ out[2 * t][1] = joined[t].g
              /\ out[2 * t][2] = joined[t].u
        /\ Len(joined) < num_taxa - 2 => Len(out) = 2 * Len(joined)
        /\ BuiltOk =>
              /\ Len(joined) = num_taxa - 2
              /\ Len(out) = 2 * num_taxa - 3
              /\ Cardinality(Unjoined) = 2
              /\ {out[Len(out)][1], out[Len(out)][2]} = Unjoined

\* C1 witness: a finished Default build of at least four taxa in which a
\* synthesized node was joined again.
C1_Witness ==
    /\ BuiltOk
    /\ global_options = DEFAULT_OPTION
    /\ num_taxa >= 4
    /\ Len(out) = 2 * num_taxa - 3
    /\ \E t \in 1 .. Len(joined) : joined[t].f >= num_taxa

RECURSIVE Reach(_, _)
\* The nodes reachable from the set S along neighbor pointers.
Reach(S, budget) ==
    LET T == S \cup UNION {Neighbors(x) : x \in S}
    IN IF T = S \/ budget = 0 THEN S ELSE Reach(T, budget - 1)

\* C2: after a successful build with n >= 3 taxa every leaf has its one
\* neighbor in slot 0, every synthesized node has three neighbors, and the
\* neighbor relation is symmetric, connected and has num_all_nodes - 1 edges.
C2_TreeAdjacency ==
    (BuiltOk /\ num_taxa >= 3) =>
        LET All == 0 .. (num_all_nodes - 1)
        IN /\ \A x \in 0 .. (num_taxa - 1) :
                 nodes[x][1] # NULL /\ nodes[x][2] = NULL /\ nodes[x][3] = NULL
           /\ \A x \in num_taxa .. (num_all_nodes - 1) :
                 \A s \in 1 .. 3 : nodes[x][s] # NULL
           /\ \A x \in All : \A y \in Neighbors(x) : x \in Neighbors(y)
           /\ Reach({0}, MAX_NODES) = All
           /\ Cardinality(UNION {{{x, y} : y \in Neighbors(x)} : x \in All})
                 = num_all_nodes - 1

\* C3: on an additive matrix, for every pair of leaves the lengths written
\* along the path between them in the graph of the edge lines add up to the
\* distance read for the pair.
C3_Additivity ==
    (BuiltOk /\ num_taxa >= 3 /\ global_options = DEFAULT_OPTION) =>
        \A a \in 0 .. (num_taxa - 1) : \A b \in 0 .. (num_taxa - 1) :
            a < b => PathLengths(out, a, b, {}) = {d_input[a][b]}

\* ------------------------------------------------------------------------
\* Properties of build_taxonomy: degenerate cases, selection, matrix update
\* ------------------------------------------------------------------------

\* C14: with one taxon build_taxonomy writes no edge line, makes no node and
\* returns 0; with two taxa in Default mode it makes no node (num_all_nodes
\* stays 2) and writes exactly the line (0, 1, d[0][1]).
C14_DegenerateCases ==
    /\ (num_taxa = 1 /\ pc \in {"build", "loop", "built"}) =>
          /\ out = <<>>
          /\ num_all_nodes = 1
          /\ joined = <<>>
          /\ pc = "built" => result = 0
    /\ (num_taxa = 2 /\ global_options = DEFAULT_OPTION /\ pc = "built") =>
          /\ result = 0
          /\ num_all_nodes = 2
          /\ joined = <<>>
          /\ out = << <<0, 1, d_input[0][1]>> >>

\* C14 witness: a Default build of two taxa at a non-zero distance returned.
C14_Witness ==
    /\ BuiltOk
    /\ num_taxa = 2
    /\ global_options = DEFAULT_OPTION
    /\ d_input[0][1] = 3 * Unit
    /\ Len(out) = 1

\* C15: build_taxonomy never changes d[a][b] with a < n and b < n: at every
\* point the first n rows and columns are the matrix as read.
C15_LeafSubmatrix ==
    pc \in {"build", "loop", "built"} =>
        \A a, b \in 0 .. (num_taxa - 1) : distances[a][b] = d_input[a][b]

\* C15 witness: a build of MaxN taxa has returned and has written distances
\* to synthesized nodes.
C15_Witness ==
    /\ BuiltOk
    /\ num_taxa = MaxN
    /\ distances # d_input
    /\ \E a \in 0 .. (num_taxa - 1) : distances[a][num_taxa] # 0

\* S[x]: the sum of d[x][y] over the nodes y at the active positions.
ActiveSum(d, amap, na, x) ==
    SumOver([j \in 0 .. (na - 1) |-> d[x][amap[j]]], 0, na - 1)

\* Q for the nodes at positions i and j of the active map.
QAt(d, amap, na, i, j) ==
    (na - 2) * d[amap[i]][amap[j]]
        - ActiveSum(d, amap, na, amap[i]) - ActiveSum(d, amap, na, amap[j])

\* The pairs of positions i < j.
PositionPairs(na) == {p \in (0 .. (na - 1)) \X (0 .. (na - 1)) : p[1] < p[2]}

\* The pair at positions <<i, j>> has the least Q, and no pair before it in
\* the nested order has the same Q.
FirstMinimum(d, amap, na, i, j) ==
    \A p \in PositionPairs(na) :
        /\ QAt(d, amap, na, i, j) <= QAt(d, amap, na, p[1], p[2])
        /\ (p[1] < i \/ (p[1] = i /\ p[2] < j)) =>
              QAt(d, amap, na, i, j) < QAt(d, amap, na, p[1], p[2])

\* The step is an iteration of the main loop.
IterationStep == pc = "loop" /\ Len(joined') = Len(joined) + 1

\* The pair the iteration joins.
JoinedNow == joined'[Len(joined')]

\* C16: in every iteration the joined pair (f, g) has the least
\* Q(i,j) = (|A|-2)*d[i][j] - S[i] - S[j] over the pairs of distinct active
\* nodes, and is the first such pair in the order i ascending, j > i ascending
\* over the positions of the active map.
C16_MinimalQ ==
    [][IterationStep =>
        /\ active_node_map[JoinedNow.fpos] = JoinedNow.f
        /\ active_node_map[JoinedNow.gpos] = JoinedNow.g
        /\ JoinedNow.f # JoinedNow.g
        /\ FirstMinimum(distances, active_node_map, num_active_nodes,
                        JoinedNow.fpos, JoinedNow.gpos)]_vars

\* C16 witness: a build of at least four taxa whose distances are all equal,
\* so that every pair has the same Q in the first iteration, has returned
\* after joining 0 and 1 first.
C16_Witness ==
    /\ BuiltOk
    /\ num_taxa >= 4
    /\ \A a, b \in 0 .. (num_taxa - 1) : a # b => d_input[a][b] = Unit
    /\ joined[1].f = 0 /\ joined[1].g = 1
    /\ Len(joined) = num_taxa - 2

\* C19 witness: after the first of several iterations the new node has a
\* non-zero distance to a node that stays active.
C19_Witness ==
    /\ pc = "loop"
    /\ num_taxa = MaxN
    /\ Len(joined) = 1
    /\ \E i \in 0 .. (num_active_nodes - 1) :
          /\ active_node_map[i] # joined[1].u
          /\ distances[joined[1].u][active_node_map[i]] > 0
          /\ distances[joined[1].u][active_node_map[i]]
                # d_input[joined[1].f][active_node_map[i]]

\* C17: for n >= 3 the closing edge joins the two nodes p and q left in the
\* active set and its length is d[p][q] of the final matrix.
C17_ClosingEdge ==
    (BuiltOk /\ num_taxa >= 3 /\ global_options = DEFAULT_OPTION) =>
        LET last == out[Len(out)]
        IN /\ {last[1], last[2]} = Unjoined
           /\ last[3] = distances[last[1]][last[2]]

\* The synthesized nodes.
Synthesized == num_taxa .. (num_all_nodes - 1)

\* C18: after build_taxonomy has returned every synthesized node u has
\* d[u][u] = 0, and so it has at the start of every iteration in which u is
\* active.
C18_ZeroDiagonal ==
    /\ BuiltOk => \A u \in Synthesized : distances[u][u] = 0
    /\ pc = "loop" =>
          \A i \in 0 .. (num_active_nodes - 1) :
              active_node_map[i] \in Synthesized =>
                  distances[active_node_map[i]][active_node_map[i]] = 0

\* The nodes active after the iteration that is being taken.
ActiveAfter ==
    {active_node_map'[i] : i \in 0 .. (num_active_nodes - 2)}

\* C19: at the end of the iteration that joins f and g under u, every node
\* k left in the active set other than u has
\* d[u][k] = d[k][u] = (d[f][k] + d[g][k] - d[f][g]) / 2, from the values d
\* had at the start of the iteration.
C19_MatrixUpdate ==
    [][IterationStep =>
        \A k \in ActiveAfter \ {JoinedNow.u} :
            /\ distances'[JoinedNow.u][k] = distances'[k][JoinedNow.u]
            /\ 2 * distances'[JoinedNow.u][k] =
                  distances[JoinedNow.f][k] + distances[JoinedNow.g][k]
                      - distances[JoinedNow.f][JoinedNow.g]]_vars

\* An iteration of the main loop is about to start.
IterationStart == pc = "loop" /\ n <= num_taxa - 3

\* The first num_active_nodes entries of the active map.
ActiveNow == {active_node_map[i] : i \in 0 .. (num_active_nodes - 1)}

\* C21: at the start of iteration t the first num_active_nodes = n - t
\* entries of active_node_map are pairwise distinct node indices below
\* num_all_nodes = n + t, and active_node_map[x] = x for each x among them;
\* the two edge lines an iteration writes then carry the joined nodes f and g
\* and the new node u themselves.
C21_ActiveMap ==
    /\ [](IterationStart =>
            /\ n = Len(joined)
            /\ num_active_nodes = num_taxa - n
            /\ num_all_nodes = num_taxa + n
            /\ Cardinality(ActiveNow) = num_active_nodes
            /\ \A x \in ActiveNow :
                  /\ x \in 0 .. (num_all_nodes - 1)
                  /\ active_node_map[x] = x)
    /\ [][(IterationStep /\ global_options = DEFAULT_OPTION) =>
            /\ JoinedNow.f \in ActiveNow
            /\ JoinedNow.g \in ActiveNow
            /\ JoinedNow.u = num_all_nodes
            /\ Len(out') >= Len(out) + 2
            /\ out'[Len(out) + 1][1] = JoinedNow.f
            /\ out'[Len(out) + 1][2] = JoinedNow.u
            /\ out'[Len(out) + 2][1] = JoinedNow.g
            /\ out'[Len(out) + 2][2] = JoinedNow.u]_vars

\* C21 witness: the third iteration of a Default build of MaxN taxa is about
\* to start, a node has been moved from the last position into the place of
\* a joined one, and a synthesized node is active.
C21_Witness ==
    /\ IterationStart
    /\ global_options = DEFAULT_OPTION
    /\ num_taxa = MaxN
    /\ n = 2
    /\ \E i \in 0 .. (num_active_nodes - 1) :
          active_node_map[i] # i /\ active_node_map[i] < num_taxa
    /\ \E i \in 0 .. (num_active_nodes - 1) : active_node_map[i] >= num_taxa

\* The undirected edges of the edge lines written.
EdgeSet == {{out[k][1], out[k][2]} : k \in 1 .. Len(out)}

\* The number of edge lines that name node x.
LinesAt(x) == Cardinality({k \in 1 .. Len(out) : x \in {out[k][1], out[k][2]}})

RECURSIVE Component(_, _)
\* The nodes joined to the set S by the edges written.
Component(S, budget) ==
    LET T == S \cup UNION {e \in EdgeSet : e \cap S # {}}
    IN IF T = S \/ budget = 0 THEN S ELSE Component(T, budget - 1)

\* C22: for a valid input of n >= 3 taxa the edge lines written in Default
\* mode, read as undirected edges, are a tree on the nodes 0 .. 2n-3: the two
\* ends of every line differ, every leaf is on exactly one line, every
\* synthesized node on exactly three, and the graph is connected.
C22_EdgeTree ==
    (BuiltOk /\ num_taxa >= 3 /\ global_options = DEFAULT_OPTION) =>
        /\ \A k \in 1 .. Len(out) :
              /\ out[k][1] # out[k][2]
              /\ out[k][1] \in 0 .. (2 * num_taxa - 3)
              /\ out[k][2] \in 0 .. (2 * num_taxa - 3)
        /\ \A x \in 0 .. (num_taxa - 1) : LinesAt(x) = 1
        /\ \A x \in num_taxa .. (2 * num_taxa - 3) : LinesAt(x) = 3
        /\ Component({0}, MAX_NODES) = 0 .. (2 * num_taxa - 3)

\* C22 witness: a Default build of MaxN taxa has returned, and two
\* synthesized nodes share an edge line that is not the closing one.
C22_Witness ==
    /\ BuiltOk
    /\ global_options = DEFAULT_OPTION
    /\ num_taxa = MaxN
    /\ Len(out) = 2 * MaxN - 3
    /\ \E k \in 1 .. (Len(out) - 1) :
          out[k][1] >= num_taxa /\ out[k][2] >= num_taxa

\* ------------------------------------------------------------------------
\* Properties of read_distance_data
\* ------------------------------------------------------------------------

Returned == pc = "read_returned"

\* C4: whenever read_distance_data returns 0 with num_taxa = n, the stored
\* matrix has d[i][j] = d[j][i] and d[i][i] = 0 for all 0 <= i, j < n.
C4_SymmetricZeroDiagonal ==
    (Returned /\ result = 0) =>
        \A i, j \in 0 .. (num_taxa - 1) :
            distances[i][j] = distances[j][i] /\ distances[i][i] = 0

\* The bytes of the header and of the first nt - 1 rows of the plain document.
BeforeLastRow(nt) == Len(Lines(SubSeq(DocLines(BaseDoc(nt)), 1, nt)))

\* C5: read_distance_data returns -1 when the input ends before the header
\* line and all n rows have been read: the empty input, a header without its
\* newline, a header with no rows, a header with fewer than n rows.
C5_PrematureEnd ==
    (Returned /\ given.kind = "truncate" /\ given.i <= BeforeLastRow(given.n))
        => result = -1

\* C6: read_distance_data returns -1 when a row has a number of fields other
\* than n + 1 or a first field that is not the header's label of the same
\* position.
C6_RowShape ==
    (Returned /\ given.kind \in {"dropfield", "extrafield", "blankrow", "rowlabel"})
        => result = -1

\* [0-9]+(\.[0-9]+)?, with its point (if any) at index k
NumberAt(tok, k) ==
    /\ k >= 2
    /\ \A x \in 1 .. (k - 1) : tok[x] \in Digits
    /\ k <= Len(tok) => /\ tok[k] = "."
                        /\ k < Len(tok)
                        /\ \A x \in (k + 1) .. Len(tok) : tok[x] \in Digits
IsNumber(tok) == \E k \in 2 .. (Len(tok) + 1) : NumberAt(tok, k)
LeadingZero(tok) == Len(tok) >= 2 /\ tok[1] = "0" /\ tok[2] \in Digits

RECURSIVE DigitsValue(_)
\* The number written by the digits of tok, its point left out.
DigitsValue(tok) ==
    IF Len(tok) = 0 THEN 0
    ELSE IF tok[Len(tok)] = "." THEN DigitsValue(Chop(tok))
    ELSE 10 * DigitsValue(Chop(tok)) + DigitValue(tok[Len(tok)])

RECURSIVE Power10(_)
Power10(k) == IF k = 0 THEN 1 ELSE 10 * Power10(k - 1)

\* The decimal value of a number, in units.
DecimalValue(tok) ==
    LET k == CHOOSE k \in 2 .. (Len(tok) + 1) : NumberAt(tok, k)
        places == IF k > Len(tok) THEN 0 ELSE Len(tok) - k
    IN Div(DigitsValue(tok) * Unit, Power10(places))

\* C7: a numeric field that matches [0-9]+(\.[0-9]+)? without a superfluous
\* leading zero is accepted and stored as its decimal value (here: in the
\* runs where the uninitialised value happens to be 0, for fields of at most
\* INPUT_MAX bytes put at row i column j and row j column i).
C7_NumbersAccepted ==
    (/\ Returned
     /\ given.kind = "pair"
     /\ given.value = 0
     /\ IsNumber(given.tok) /\ ~LeadingZero(given.tok)
     /\ Len(given.tok) <= INPUT_MAX)
        => /\ result = 0
           /\ distances[given.i][given.j] = DecimalValue(given.tok)
           /\ distances[given.j][given.i] = DecimalValue(given.tok)

\* C8: read_distance_data returns -1 when a numeric field, the first of a row
\* included, is empty or does not match [0-9]+(\.[0-9]+)? or has a leading
\* zero followed by a digit.
C8_MalformedRejected ==
    (/\ Returned
     /\ given.kind \in {"cell", "pair"}
     /\ (~IsNumber(given.tok) \/ LeadingZero(given.tok)))
        => result = -1

\* C9: a field of exactly INPUT_MAX bytes is accepted and a field of
\* INPUT_MAX + 1 bytes makes read_distance_data return -1, for the first, a
\* middle and the last label of the header with its row label, and for a
\* numeric field (here: in the runs where the uninitialised value is 0).
C9_FieldLength ==
    (Returned /\ given.value = 0) =>
        /\ (given.kind = "label" /\ given.j = INPUT_MAX) => result = 0
        /\ (given.kind = "label" /\ given.j = INPUT_MAX + 1) => result = -1
        /\ (given.kind = "pair" /\ given.tok = Repeat("1", INPUT_MAX)) => result = 0
        /\ (given.kind = "pair" /\ given.tok = Repeat("1", INPUT_MAX + 1)) => result = -1

\* read_distance_data run to its end on the document without the comments,
\* from the same first content of value.
BaseRun == Run(given.base, EnterRead(given.base, given.value, overflow))

\* C10: comment lines (first byte '#', any other bytes, ended by a newline)
\* inserted before the header or between the lines of a valid document do
\* not change what read_distance_data returns nor num_taxa, the labels and
\* the matrix it leaves.
C10_CommentsIgnored ==
    (given.kind = "comment" /\ pc # "read") =>
        /\ Returned
        /\ BaseRun.pc = "read_returned"
        /\ result = BaseRun.result
        /\ num_taxa = BaseRun.num_taxa
        /\ node_names = BaseRun.node_names
        /\ distances = BaseRun.distances

\* A document of MaxRows taxa with blocks of MaxCommentLines comment lines,
\* one of them between two rows, has been read successfully.
C10_Witness ==
    /\ Returned
    /\ given.kind = "comment"
    /\ given.i = MaxCommentLines
    /\ given.n = MaxRows
    /\ Len(input) >= Len(given.base) + 2 * Len(given.tok)
    /\ result = 0
    /\ distances[0][1] = 5 * Unit

\* read_distance_data has returned, or has been ended by the write past the
\* buffer.
ReadOver == pc \in {"read_returned", "undefined"}

\* C20: read_distance_data terminates on every finite input, the inputs
\* that end inside a comment line, a header, a row label or a numeric field
\* included: until it is over, the read loop has a next turn to take (and
\* every turn reads at least one byte of the finite input or ends the loop).
C20_Terminates == ReadOver \/ ENABLED NextRead

\* ------------------------------------------------------------------------
\* Properties of main
\* ------------------------------------------------------------------------

\* The diagnostics read_distance_data writes.
Diagnostics ==
    {"Error: Input field character length exceeds input max!",
     "Error: Number of taxa exceeds taxa max!",
     "Error: Number of taxa exceeds allowed taxa max!",
     "Error: Incorrect taxa name in matrix!",
     "Error: Matrix input is not a valid floating point value!",
     "Error: Missing input field!",
     "Error: Number of fields in matrix row is incorrect!",
     "Error: Non-zero along matrix diagonal!",
     "Error: Matrix is not symmetrical!"}

\* C11: when read_distance_data detects an error it writes exactly one
\* diagnostic line and returns -1, and the program exits with failure without
\* running build_taxonomy or a renderer: in every mode nothing is written to
\* the primary output.
C11_ErrorExit ==
    /\ pc = "read_returned" => (result = -1 <=> err # <<>>)
    /\ err # <<>> =>
          /\ Len(err) = 1
          /\ err[1] \in Diagnostics
          /\ result = -1
          /\ pc \in {"read_returned", "exit_failure"}
          /\ out = <<>>
          /\ joined = <<>>
    /\ pc = "exit_failure" => err # <<>>

\* C11 witness: in Matrix mode the program has exited with failure on a
\* matrix that is not symmetrical.
C11_Witness ==
    /\ pc = "exit_failure"
    /\ global_options = MATRIX_OPTION
    /\ given.kind = "cell"
    /\ err = <<"Error: Matrix is not symmetrical!">>

\* The input is a plain document and value held 0 at first.
ValidInput == given.kind = "plain" /\ given.i = 0 /\ given.value = 0

\* The text w occurs in the text t.
Contains(t, w) ==
    \E k \in 0 .. (Len(t) - Len(w)) : SubSeq(t, k + 1, k + Len(w)) = w

\* C12: in Newick mode, for a valid input, the program runs the build without
\* edge records and writes a Newick string that ends with ';' and holds every
\* leaf label but the outlier's; for one taxon it writes the label and ';'.
C12_Newick ==
    (pc = "exit_success" /\ global_options = NEWICK_OPTION /\ ValidInput) =>
        /\ num_taxa >= 3 => Len(joined) = num_taxa - 2
        /\ Len(out) = 1
        /\ Len(out[1]) > 0
        /\ out[1][Len(out[1])] = ";"
        /\ num_taxa = 1 => out[1] = node_names[0] \o <<";">>
        /\ num_taxa > 1 =>
              \E o \in 0 .. (num_taxa - 1) :
                  \A i \in (0 .. (num_taxa - 1)) \ {o} :
                      Contains(out[1], node_names[i])

RECURSIVE Fields(_)
\* The fields of a line: the texts between its commas.
Fields(t) ==
    LET commas == {k \in 1 .. Len(t) : t[k] = ","}
    IN IF commas = {} THEN <<t>>
       ELSE LET k == CHOOSE c \in commas : \A e \in commas : c <= e
            IN <<SubSeq(t, 1, k - 1)>> \o Fields(SubSeq(t, k + 1, Len(t)))

\* The field is a number with two decimals (its digits count hundredths), and
\* no hundredth is nearer to v.
DistanceField(f, v) ==
    LET g == IF Len(f) > 0 /\ f[1] = "-" THEN Tail(f) ELSE f
        a == IF v < 0 THEN 0 - v ELSE v
    IN /\ Len(g) >= 4
       /\ NumberAt(g, Len(g) - 2)
       /\ (Len(f) > 0 /\ f[1] = "-") => v < 0
       /\ 2 * (DigitsValue(g) * (Unit \div 100) - a) <= Unit \div 100
       /\ 2 * (a - DigitsValue(g) * (Unit \div 100)) <= Unit \div 100

\* The number of edges of the tree of nt taxa.
EdgeCount(nt) == IF nt <= 1 THEN 0 ELSE IF nt = 2 THEN 1 ELSE 2 * nt - 3

\* C13: in Matrix mode no edge record is written at any point, and after
\* build_taxonomy the output is num_all_nodes + 1 lines: a header with an
\* empty first field and then the names of all nodes in index order, and one
\* row per node in index order, its name and then num_all_nodes distance
\* fields.  In Default mode the edge records are written and no matrix.
C13_ModeOutput ==
    /\ (global_options = MATRIX_OPTION /\ pc # "exit_success") => out = <<>>
    /\ (global_options = MATRIX_OPTION /\ pc = "exit_success") =>
          /\ Len(out) = num_all_nodes + 1
          /\ out[1] = <<",">> \o JoinFields([i \in 1 .. num_all_nodes |->
                                               node_names[i - 1]])
          /\ \A i \in 1 .. num_all_nodes :
                LET fs == Fields(out[i + 1])
                IN /\ Len(fs) = num_all_nodes + 1
                   /\ fs[1] = node_names[i - 1]
                   /\ \A j \in 1 .. num_all_nodes :
                         DistanceField(fs[j + 1], distances[i - 1][j - 1])
    /\ (global_options = DEFAULT_OPTION /\ pc \in {"built", "exit_success"}) =>
          /\ Len(out) = EdgeCount(num_taxa)
          /\ \A k \in 1 .. Len(out) :
                /\ Len(out[k]) = 3
                /\ out[k][1] \in Nodes
                /\ out[k][2] \in Nodes

\* C13 witness: in Matrix mode the matrix of three taxa and the node made for
\* them has been written, five lines, the last one the row of node #3.
C13_Witness ==
    /\ pc = "exit_success"
    /\ global_options = MATRIX_OPTION
    /\ num_taxa = 3
    /\ num_all_nodes = 4
    /\ Len(out) = 5
    /\ Fields(out[5])[1] = <<"#", "3">>
    /\ \E j \in 2 .. 5 : Fields(out[5])[j] # <<"0", ".", "0", "0">>

====
